---- MODULE Spec2Model ----
(***************************************************************************)
(* Model of the live GET /events handler of src/main.py (lines 573-727):   *)
(* the token exchange, the paginated fetch under the urllib3 Retry policy  *)
(* mounted on the session, the per-record normalisation into EventOut, the *)
(* local Markdown renderer and the mapping of outcomes to HTTP responses.  *)
(*                                                                         *)
(* Text is a sequence of tokens.  The characters the code treats specially *)
(* ("|", "\\", "\n", " ") are tokens of their own; every other token is a  *)
(* run of characters that holds none of them.                              *)
(***************************************************************************)
EXTENDS Integers, Sequences, FiniteSets, TLC

(* ------------------------------ bounds -------------------------------- *)

\* Longest chain of pages the remote system serves for one query.
MaxPages == 3

\* Most records the remote system puts in one page.
MaxRecs == 2

\* Most records in the result set of the query.
MaxData == 4

(* --------------------------- text helpers ----------------------------- *)

RECURSIVE Join(_, _)
\* sep.join(parts) of Python, on token sequences
Join(parts, sep) ==
    IF parts = <<>> THEN <<>>
    ELSE IF Len(parts) = 1 THEN parts[1]
    ELSE parts[1] \o sep \o Join(Tail(parts), sep)

RECURSIVE Replace(_, _, _)
\* s.replace(old, new) of Python for a one-character old
Replace(s, old, new) ==
    IF s = <<>> THEN <<>>
    ELSE (IF Head(s) = old THEN new ELSE <<Head(s)>>) \o Replace(Tail(s), old, new)

RECURSIVE SplitLines(_)
\* s.split("\n") of Python: the lines of a text
SplitLines(s) ==
    IF \A i \in 1..Len(s) : s[i] # "\n" THEN <<s>>
    ELSE LET i == CHOOSE j \in 1..Len(s) :
                     s[j] = "\n" /\ \A k \in 1..(j - 1) : s[k] # "\n"
         IN  <<SubSeq(s, 1, i - 1)>> \o SplitLines(SubSeq(s, i + 1, Len(s)))

Last(s) == s[Len(s)]

(* ------------------------- JSON and EventOut -------------------------- *)

\* A JSON scalar as seen by Python: an absent key, None (JSON null) or a str.
Missing == [k |-> "missing", s |-> <<>>]
None == [k |-> "none", s |-> <<>>]
Str(s) == [k |-> "str", s |-> s]

\* A related sub-object (Owner, What, ...): absent key, null, or an object
\* with an optional Name.
RelMissing == [k |-> "missing", Name |-> Missing]
RelNull == [k |-> "none", Name |-> Missing]
RelObj(name) == [k |-> "obj", Name |-> name]

\* A related sub-object that came as a JSON string instead of an object.
RelStr == [k |-> "str", Name |-> Missing]

\* The keys the SOQL query selects, all absent.
EmptyRemote ==
    [Id |-> Missing, Subject |-> Missing, OwnerId |-> Missing, WhatId |-> Missing,
     AccountId |-> Missing, Appointment_Status__c |-> Missing,
     StartDateTime |-> Missing, EndDateTime |-> Missing, Description |-> Missing,
     CreatedById |-> Missing, LastModifiedById |-> Missing,
     Owner |-> RelMissing, What |-> RelMissing, Account |-> RelMissing,
     CreatedBy |-> RelMissing, LastModifiedBy |-> RelMissing]

\* rec.get(key): None for an absent key, the value otherwise
Get(v) == IF v.k = "missing" THEN None ELSE v

RelNameRaw(rel) == IF rel.k = "obj" THEN rel.Name ELSE None

\* (rec.get(rel) or {}).get("Name")
RelName(rel) == IF rel.k = "obj" THEN Get(rel.Name) ELSE None

\* The related sub-objects of a record, in the order the code reads them.
Rels(rec) == <<rec.Owner, rec.What, rec.Account, rec.CreatedBy, rec.LastModifiedBy>>

\* rec["Id"] raises KeyError when the key is absent, x.get("Name") raises
\* AttributeError when the sub-object x is a str, and EventOut(id=None) fails
\* validation (id: str): a record is built only from a str Id and
\* sub-objects that are absent, null or objects.
Constructs(rec) == rec.Id.k = "str" /\ \A i \in 1..5 : Rels(rec)[i].k # "str"

\* The exception the construction of a record raises.
BuildError(rec) ==
    IF rec.Id.k = "missing" THEN "KeyError"
    ELSE IF \E i \in 1..5 : Rels(rec)[i].k = "str" THEN "AttributeError"
    ELSE "ValidationError"

\* EventOut(id=rec["Id"], subject=rec.get("Subject"), ...)
EventOut(rec) ==
    [id |-> rec.Id,
     subject |-> Get(rec.Subject),
     owner_id |-> Get(rec.OwnerId),
     owner_name |-> RelName(rec.Owner),
     what_id |-> Get(rec.WhatId),
     what_name |-> RelName(rec.What),
     account_id |-> Get(rec.AccountId),
     account_name |-> RelName(rec.Account),
     appointment_status_c |-> Get(rec.Appointment_Status__c),
     start_datetime |-> Get(rec.StartDateTime),
     end_datetime |-> Get(rec.EndDateTime),
     description |-> Get(rec.Description),
     created_by_name |-> RelName(rec.CreatedBy),
     created_by_id |-> Get(rec.CreatedById),
     last_modified_by_name |-> RelName(rec.LastModifiedBy),
     last_modified_by_id |-> Get(rec.LastModifiedById)]

RECURSIVE NormalizeAll(_)
\* The EventOut values the for loop appends for the records of one page, up
\* to the first record it cannot build.
NormalizeAll(recs) ==
    IF recs = <<>> \/ ~Constructs(Head(recs)) THEN <<>>
    ELSE <<EventOut(Head(recs))>> \o NormalizeAll(Tail(recs))

PageBuildsLenient(recs) == TRUE

\* The for loop over a page ran to its end.
PageBuilds(recs) == \A i \in 1..Len(recs) : Constructs(recs[i])

\* The first record of a page that cannot be built.
FirstBad(recs) ==
    recs[CHOOSE i \in 1..Len(recs) :
            ~Constructs(recs[i]) /\ \A j \in 1..(i - 1) : Constructs(recs[j])]

(* ---------------------------- the renderer ---------------------------- *)

headers ==
    <<"id", "subject", "owner_id", "owner_name", "what_id", "what_name",
      "account_id", "account_name", "appointment_status_c", "start_datetime",
      "end_datetime", "description", "created_by_name", "created_by_id",
      "last_modified_by_name", "last_modified_by_id">>

\* "| " + " | ".join(cells) + " |"
TableLine(cells) == <<"|", " ">> \o Join(cells, <<" ", "|", " ">>) \o <<" ", "|">>

HeaderLine == TableLine([i \in 1..Len(headers) |-> <<headers[i]>>])

SeparatorLine == TableLine([i \in 1..Len(headers) |-> <<"---">>])

\* getattr(e, h)
Attr(e, h) ==
    CASE h = "id" -> e.id
      [] h = "subject" -> e.subject
      [] h = "owner_id" -> e.owner_id
      [] h = "owner_name" -> e.owner_name
      [] h = "what_id" -> e.what_id
      [] h = "what_name" -> e.what_name
      [] h = "account_id" -> e.account_id
      [] h = "account_name" -> e.account_name
      [] h = "appointment_status_c" -> e.appointment_status_c
      [] h = "start_datetime" -> e.start_datetime
      [] h = "end_datetime" -> e.end_datetime
      [] h = "description" -> e.description
      [] h = "created_by_name" -> e.created_by_name
      [] h = "created_by_id" -> e.created_by_id
      [] h = "last_modified_by_name" -> e.last_modified_by_name
      [] h = "last_modified_by_id" -> e.last_modified_by_id

CellKeepsNewline(e, h) ==
    LET val == IF Attr(e, h).k = "str" THEN Attr(e, h).s ELSE <<>>
    IN  Replace(val, "|", <<"\\", "|">>)

CellKeepsPipe(e, h) ==
    LET val == IF Attr(e, h).k = "str" THEN Attr(e, h).s ELSE <<>>
    IN  Replace(val, "\n", <<" ">>)

CellNoneText(e, h) ==
    LET val == IF Attr(e, h).k = "str" THEN Attr(e, h).s ELSE <<"None">>
    IN  Replace(Replace(val, "|", <<"\\", "|">>), "\n", <<" ">>)

\* str(getattr(e, h) or "").replace("|", "\\|").replace("\n", " ")
Cell(e, h) ==
    LET val == IF Attr(e, h).k = "str" THEN Attr(e, h).s ELSE <<>>
    IN  Replace(Replace(val, "|", <<"\\", "|">>), "\n", <<" ">>)

RowLine(e) == TableLine([i \in 1..Len(headers) |-> Cell(e, headers[i])])

build_markdown_local(evs) ==
    Join(<<HeaderLine, SeparatorLine>> \o [i \in 1..Len(evs) |-> RowLine(evs[i])],
         <<"\n">>)

(* ------------------------- the remote system -------------------------- *)

CredNames ==
    {"SALESFORCE_CONSUMER_KEY", "SALESFORCE_CONSUMER_SECRET",
     "SALESFORCE_USERNAME", "SALESFORCE_PASSWORD"}

\* os.getenv of a credential: unset (None), set to "", or set to a value.
CredValues == {"None", "", "secret"}

\* The status of a response; NetErr stands for no response at all (the
\* connection failed or the read timed out).
NetErr == 0

\* What the token endpoint may answer.
TokenStatuses == {200, 201, 400, 500}

\* What the query endpoint may answer.
QueryStatuses == {200, 401, 404, 503}

\* The instance URL and the bearer token of a granted token response.
InstanceUrl == <<"https://inst.example">>

AccessToken == "tok1"

\* Names of the pages of a result set; page 1 is the answer to the query.
PageNames == <<"q", "01g-2", "01g-3", "01g-4", "01g-5", "01g-6">>

\* nextRecordsUrl pointing at page k, as a root-relative path and as a full URL
RelCursor(k) == <<"/services/data/v59.0/query/", PageNames[k]>>

AbsCursor(k) == InstanceUrl \o RelCursor(k)

NoCursor == <<>>

\* The URL the remote system serves page k under.
PageUrl(k) ==
    IF k = 1 THEN InstanceUrl \o <<"/services/data/v59.0/query?q=", "soql">>
    ELSE AbsCursor(k)

\* The page a URL names, 0 when the remote system serves no such URL.
PageOf(u) ==
    IF \E k \in 1..MaxPages : PageUrl(k) = u
    THEN CHOOSE k \in 1..MaxPages : PageUrl(k) = u
    ELSE 0

\* The Id values the remote system issues.
IdNames == <<"E1", "E2", "E3", "E4", "E5", "E6", "E7", "E8">>

\* The i-th record of a result set: {Id, Subject} for odd i and
\* {Id, Subject, Owner: {Name}} for even i.
RemoteRecord(i) ==
    IF i % 2 = 1
    THEN [EmptyRemote EXCEPT !.Id = Str(<<IdNames[i]>>), !.Subject = Str(<<"Call">>)]
    ELSE [EmptyRemote EXCEPT !.Id = Str(<<IdNames[i]>>), !.Subject = Str(<<"Visit">>),
                             !.Owner = RelObj(Str(<<"Alice">>))]

\* The result sets of the query: up to MaxData records, at most one of which
\* comes without its Id key.
ResultSets ==
    {[i \in 1..n |-> IF i = bad THEN [RemoteRecord(i) EXCEPT !.Id = Missing]
                                ELSE RemoteRecord(i)] :
        n \in 0..MaxData, bad \in 0..MaxData}

RECURSIVE Sent(_)
\* The number of records the pages of a sequence carry.
Sent(pages) == IF pages = <<>> THEN 0 ELSE Len(Head(pages).records) + Sent(Tail(pages))

\* The "records" arrays the next page may carry: the next records of the
\* result set, at most MaxRecs of them.
PageRecords(data, pages) ==
    {SubSeq(data, Sent(pages) + 1, Sent(pages) + m) :
        m \in 0..(IF Len(data) - Sent(pages) < MaxRecs THEN Len(data) - Sent(pages)
                                                      ELSE MaxRecs)}

\* The nextRecordsUrl values page k may carry: none on the last page the
\* remote system has, else a cursor to page k + 1 in either form.
Cursors(k) ==
    IF k < MaxPages THEN {NoCursor, RelCursor(k + 1), AbsCursor(k + 1)}
    ELSE {NoCursor}

(* --------------------------- the program ------------------------------ *)

VARIABLES
    remote,       \* the result set the remote system holds for the query
    creds,        \* the four module-level SALESFORCE_* values
    pc,           \* "start", "fetch" (inside the while loop) or "done"
    auth,         \* resp.json() of the token exchange
    url,          \* the loop variable url; <<>> is None
    retriesLeft,  \* Retry.total left for the sess.get call in progress
    events,       \* the list events
    raised,       \* the exception raised inside the try block, if any
    response,     \* the HTTP response of the request
    posts,        \* statuses of the token POSTs made, in order
    gets,         \* number of GET attempts made
    tries,        \* statuses of the attempts of the current sess.get call
    served,       \* the pages received with status 200, in order, each with the
                  \* bearer token of its GET
    gen,          \* the run of generate_markdown_with_watsonx, if any
    other         \* the locals of the other call of get_events, if any

vars ==
    <<remote, creds, pc, auth, url, retriesLeft, events, raised, response, posts, gets,
      tries, served, gen, other>>

\* Retry(total=3, ...): the retries allowed after the first attempt
RetryTotalFour == 3 + 1

RetryTotalOne == 3 - 2

RetryTotal == 3

\* urllib3 gives up when the count left after a failure is negative.
is_exhausted(total) == total < 0

status_forcelist_wide == {401, 404, 429, 500, 502, 503, 504}

status_forcelist == {429, 500, 502, 503, 504}

\* Retry.is_retry for a GET, and a failed connection or read
is_retry(status) == status = NetErr \/ status \in status_forcelist

\* resp.raise_for_status() raises
raises_for_status(status) == status >= 400

AnyCredential(c) == \E n \in CredNames : c[n] \notin {"None", ""}

\* all([SALESFORCE_CONSUMER_KEY, ..., SALESFORCE_PASSWORD])
AllCredentials(c) == \A n \in CredNames : c[n] \notin {"None", ""}

NoAuth == [access_token |-> "", instance_url |-> <<>>]

NoException == [type |-> "", status_code |-> 0, detail |-> ""]

HTTPException(code, text) ==
    [type |-> "HTTPException", status_code |-> code, detail |-> text]

Raised(type) == [type |-> type, status_code |-> 0, detail |-> ""]

batch_size == 1000

\* generate_markdown_with_watsonx was not called; size is the batch size
\* of its loop.
NoGen ==
    [pc |-> "idle", size |-> batch_size, i |-> 0, tables |-> <<>>, calls |-> 0,
     error |-> <<>>]

NoResponse == [status |-> 0, media_type |-> "", body |-> <<>>]

\* The locals of call n of get_events before its first statement, with the
\* calls it has made.
NewRequest(n) ==
    [id |-> n, pc |-> "start", auth |-> NoAuth, url |-> <<>>, retriesLeft |-> 0,
     events |-> <<>>, raised |-> NoException, response |-> NoResponse,
     posts |-> <<>>, gets |-> 0, tries |-> <<>>, served |-> <<>>]

\* There is no other call of get_events.
NoRequest == [NewRequest(2) EXCEPT !.pc = "none"]

\* The number of the call the variables pc, auth, ..., served belong to
Self == 3 - other.id

\* The bearer tokens the token endpoint issues, one for each exchange.
AccessTokens == <<"tok1", "tok2">>

\* Response(content=..., media_type="text/plain")
PlainResponse(content) ==
    [status |-> 200, media_type |-> "text/plain", body |-> content]

\* What the framework sends for an HTTPException that leaves the handler.
ErrorResponse(exc) ==
    [status |-> exc.status_code, media_type |-> "application/json",
     body |-> <<exc.detail>>]

\* The literal the handler returns when events is empty.
EmptyPlaceholder ==
    <<"|", " ", "id", " ", "|", " ", "subject", " ", "|", " ", "...", " ", "|",
      "\n", "|", "---", "|", "---", "|", "...", "|">>

\* The two returns that end the try block.
Render(evs) ==
    IF evs = <<>> THEN PlainResponse(EmptyPlaceholder)
    ELSE PlainResponse(build_markdown_local(evs))

OnExceptionPassthrough(exc, evs) ==
    IF exc.type = "HTTPException" THEN ErrorResponse(exc)
    ELSE ErrorResponse(HTTPException(500, "Failed to fetch events"))

OnExceptionPartial(exc, evs) == PlainResponse(build_markdown_local(evs))

\* except Exception as e: raise HTTPException(500, "Failed to fetch events")
OnException(exc, evs) == ErrorResponse(HTTPException(500, "Failed to fetch events"))

AccumulatePrepend(evs, recs) == NormalizeAll(recs) \o evs

\* events.append(EventOut(...)) for each record of a page
Accumulate(evs, recs) == evs \o NormalizeAll(recs)

ResolveCursorStop(inst, nxt) == <<>>

\* url = f"{inst}{nxt}" if nxt else None
ResolveCursor(inst, nxt) == IF nxt # <<>> THEN inst \o nxt ELSE <<>>

Init ==
    /\ remote \in ResultSets
    /\ creds \in [CredNames -> CredValues]
    /\ pc = "start"
    /\ auth = NoAuth
    /\ url = <<>>
    /\ retriesLeft = 0
    /\ events = <<>>
    /\ raised = NoException
    /\ response = NoResponse
    /\ posts = <<>>
    /\ gets = 0
    /\ tries = <<>>
    /\ served = <<>>
    /\ gen = NoGen
    /\ other = NoRequest

\* The try block is left by an exception: the except clause answers.
Fail(exc) ==
    /\ raised' = exc
    /\ response' = OnException(exc, events')
    /\ pc' = "done"

\* get_salesforce_access_token with a credential missing: no call is made.
TokenMissingCredentials ==
    /\ pc = "start"
    /\ ~AllCredentials(creds)
    /\ events' = events
    /\ Fail(HTTPException(500, "Missing Salesforce credentials"))
    /\ UNCHANGED <<remote, gen, other, creds, auth, url, retriesLeft, posts, gets, tries, served>>

\* The token POST is answered with a status other than 200.
TokenRejected ==
    /\ pc = "start"
    /\ AllCredentials(creds)
    /\ \E st \in TokenStatuses \ {200} : posts' = Append(posts, st)
    /\ events' = events
    /\ Fail(HTTPException(401, "Salesforce authentication failed"))
    /\ UNCHANGED <<remote, gen, other, creds, auth, url, retriesLeft, gets, tries, served>>

\* requests.post raises: the token endpoint cannot be reached.
TokenNetworkError ==
    /\ pc = "start"
    /\ AllCredentials(creds)
    /\ posts' = Append(posts, NetErr)
    /\ events' = events
    /\ Fail(Raised("ConnectionError"))
    /\ UNCHANGED <<remote, gen, other, creds, auth, url, retriesLeft, gets, tries, served>>

\* The token POST is answered 200: the handler builds the query URL and
\* mounts the retrying adapter.
TokenGranted ==
    /\ pc = "start"
    /\ AllCredentials(creds)
    /\ posts' = Append(posts, 200)
    /\ auth' = [access_token |-> AccessTokens[Self], instance_url |-> InstanceUrl]
    /\ url' = auth'.instance_url \o <<"/services/data/v59.0/query?q=", "soql">>
    /\ retriesLeft' = RetryTotal
    /\ pc' = "fetch"
    /\ UNCHANGED <<remote, gen, other, creds, events, raised, response, gets, tries, served>>

\* One more attempt of the sess.get call in progress is made.
Attempt(st) ==
    /\ gets' = gets + 1
    /\ tries' = IF tries # <<>> /\ Last(tries) = 200 THEN <<st>> ELSE Append(tries, st)

\* What the remote system may answer to a GET of u: nothing listens at a URL
\* it does not serve.
Answers(u) == IF PageOf(u) = 0 THEN {NetErr} ELSE QueryStatuses \cup {NetErr}

\* A transient failure with retries left: the adapter sleeps and tries again.
GetRetried ==
    /\ pc = "fetch"
    /\ \E st \in Answers(url) :
        /\ is_retry(st)
        /\ ~is_exhausted(retriesLeft - 1)
        /\ Attempt(st)
    /\ retriesLeft' = retriesLeft - 1
    /\ UNCHANGED <<remote, gen, other, creds, pc, auth, url, events, raised, response, posts, served>>

\* A transient failure with no retry left: sess.get raises.
GetExhausted ==
    /\ pc = "fetch"
    /\ \E st \in Answers(url) :
        /\ is_retry(st)
        /\ is_exhausted(retriesLeft - 1)
        /\ Attempt(st)
        /\ Fail(Raised(IF st = NetErr THEN "ConnectionError" ELSE "RetryError"))
    /\ retriesLeft' = retriesLeft - 1
    /\ events' = events
    /\ UNCHANGED <<remote, gen, other, creds, auth, url, posts, served>>

\* A failure status the adapter does not retry: raise_for_status raises.
GetHttpError ==
    /\ pc = "fetch"
    /\ \E st \in Answers(url) :
        /\ ~is_retry(st)
        /\ raises_for_status(st)
        /\ Attempt(st)
    /\ events' = events
    /\ Fail(Raised("HTTPError"))
    /\ UNCHANGED <<remote, gen, other, creds, auth, url, retriesLeft, posts, served>>

\* A page arrives and every record of it is built; the loop goes on with the
\* cursor, or ends and the table is returned.
GetPage ==
    /\ pc = "fetch"
    /\ 200 \in Answers(url)
    /\ Attempt(200)
    /\ \E recs \in PageRecords(remote, served), nxt \in Cursors(PageOf(url)) :
        /\ PageBuilds(recs)
        /\ served' = Append(served, [page |-> PageOf(url), records |-> recs, nxt |-> nxt,
                                   bearer |-> auth.access_token])
        /\ events' = Accumulate(events, recs)
        /\ url' = ResolveCursor(auth.instance_url, nxt)
        /\ IF url' # <<>>
           THEN /\ retriesLeft' = RetryTotal
                /\ UNCHANGED <<pc, response>>
           ELSE /\ pc' = "done"
                /\ response' = Render(events')
                /\ UNCHANGED retriesLeft
    /\ UNCHANGED <<remote, gen, other, creds, auth, raised, posts>>

\* A page arrives with a record that cannot be built: the loop is left by
\* the exception.
GetMalformedPage ==
    /\ pc = "fetch"
    /\ 200 \in Answers(url)
    /\ Attempt(200)
    /\ \E recs \in PageRecords(remote, served), nxt \in Cursors(PageOf(url)) :
        /\ ~PageBuilds(recs)
        /\ served' = Append(served, [page |-> PageOf(url), records |-> recs, nxt |-> nxt,
                                   bearer |-> auth.access_token])
        /\ events' = Accumulate(events, recs)
        /\ Fail(Raised(BuildError(FirstBad(recs))))
    /\ UNCHANGED <<remote, gen, other, creds, auth, url, retriesLeft, posts>>

Next ==
    \/ TokenMissingCredentials
    \/ TokenRejected
    \/ TokenNetworkError
    \/ TokenGranted
    \/ GetRetried
    \/ GetExhausted
    \/ GetHttpError
    \/ GetPage
    \/ GetMalformedPage

Spec == Init /\ [][Next]_vars

(* ------------------ the handler on records of any shape --------------- *)

\* Remote records of the shapes the normaliser and the renderer tell apart:
\* the Id a str, the empty str or absent; the five sub-objects absent, null,
\* objects with or without Name, or not objects; values that hold the
\* column delimiter, a backslash or a newline.
RecordShapes ==
    {[EmptyRemote EXCEPT !.Id = Str(<<"E1">>), !.Subject = Str(<<"Call">>)],
     [EmptyRemote EXCEPT !.Id = Str(<<"E2">>), !.Subject = Str(<<"Visit">>),
         !.Owner = RelObj(Str(<<"Alice">>)), !.What = RelObj(Str(<<"Deal">>)),
         !.Account = RelObj(Str(<<"Acme">>)), !.CreatedBy = RelObj(Str(<<"Bob">>)),
         !.LastModifiedBy = RelObj(Str(<<"Carol">>))],
     [EmptyRemote EXCEPT !.Id = Str(<<"E3">>), !.Owner = RelNull, !.What = RelNull,
         !.Account = RelNull, !.CreatedBy = RelNull, !.LastModifiedBy = RelNull],
     [EmptyRemote EXCEPT !.Id = Str(<<"E4">>), !.Owner = RelObj(Missing),
         !.What = RelObj(Missing), !.Account = RelObj(Missing),
         !.CreatedBy = RelObj(Missing), !.LastModifiedBy = RelObj(Missing)],
     [EmptyRemote EXCEPT !.Id = Str(<<"E5">>), !.Subject = Str(<<"\\", "|">>),
         !.Description = Str(<<"a", "|", "b", "\n", "c">>), !.OwnerId = Str(<<>>),
         !.WhatId = Str(<<"c", "\\">>), !.AccountId = None],
     [EmptyRemote EXCEPT !.Id = Str(<<"E6">>), !.Owner = RelStr],
     [EmptyRemote EXCEPT !.Id = Str(<<>>), !.Subject = Str(<<"EmptyId">>)],
     [EmptyRemote EXCEPT !.Subject = Str(<<"NoId">>)]}

\* Result sets of up to MaxRecs records of these shapes.
ShapedResultSets == UNION {[1..n -> RecordShapes] : n \in 0..MaxRecs}

\* A request with its credentials set, against such a result set.
InitRecords ==
    /\ remote \in ShapedResultSets
    /\ creds = [n \in CredNames |-> "secret"]
    /\ pc = "start"
    /\ auth = NoAuth
    /\ url = <<>>
    /\ retriesLeft = 0
    /\ events = <<>>
    /\ raised = NoException
    /\ response = NoResponse
    /\ posts = <<>>
    /\ gets = 0
    /\ tries = <<>>
    /\ served = <<>>
    /\ gen = NoGen
    /\ other = NoRequest

\* The remote system answers every call at the first attempt.
NextRecords ==
    \/ TokenGranted
    \/ GetPage
    \/ GetMalformedPage

SpecRecords == InitRecords /\ [][NextRecords]_vars

(* ------------------------------ claims -------------------------------- *)

RECURSIVE Flatten(_)
\* The concatenation of a sequence of sequences.
Flatten(ss) == IF ss = <<>> THEN <<>> ELSE Head(ss) \o Flatten(Tail(ss))

\* The EventOut values of the records of a sequence of pages, in page order
\* and, within a page, in the page's order.
RecordsOf(pages) ==
    Flatten([i \in 1..Len(pages) |->
                [j \in 1..Len(pages[i].records) |-> EventOut(pages[i].records[j])]])

\* The statuses the claims call transient, NetErr being the network error.
ClaimedTransient == {NetErr, 429, 500, 502, 503, 504}

\* The failure statuses the claims call non-retryable.
ClaimedNonRetryable == {400, 401, 403, 404}

\* C1: when the fetch ends with a 200 response, the pages received form a
\* chain (every page but the last carries a cursor, the last carries none),
\* the i-th page received is page i of the result set, so N pages took
\* exactly N successful GETs, and events is the concatenation of the pages'
\* records in page order with the order within each page kept.
C1_PaginationComplete ==
    (pc = "done" /\ response.status = 200) =>
        /\ served # <<>>
        /\ \A i \in 1..Len(served) : served[i].page = i
        /\ \A i \in 1..(Len(served) - 1) : served[i].nxt # NoCursor
        /\ Last(served).nxt = NoCursor
        /\ events = RecordsOf(served)

\* Three pages, one of them with two records, fetched to the end.
C1_Witness ==
    /\ pc = "done"
    /\ response.status = 200
    /\ Len(served) = 3
    /\ \E i \in 1..3 : Len(served[i].records) = 2
    /\ Len(events) >= 4

\* A cursor that is a path from the root of the instance.
IsRootRelative(c) == c # <<>> /\ Head(c) = "/services/data/v59.0/query/"

\* A cursor that is a full URL.
IsAbsolute(c) == c # <<>> /\ Head(c) = "https://inst.example"

\* C2: after a page that carries a cursor, the URL of the next GET is the
\* instance URL followed by the cursor when the cursor is root-relative, and
\* the cursor itself when the cursor is an absolute URL.
C2_CursorResolution ==
    (pc = "fetch" /\ served # <<>>) =>
        /\ IsRootRelative(Last(served).nxt) =>
               url = auth.instance_url \o Last(served).nxt
        /\ IsAbsolute(Last(served).nxt) => url = Last(served).nxt

C4_RetryRecovery ==
    /\ tries = <<503, 503>> => (pc = "fetch" /\ response = NoResponse)
    /\ (tries = <<503, 503, 200>> /\ PageBuilds(Last(served).records)) =>
        /\ events = RecordsOf(SubSeq(served, 1, Len(served) - 1))
                      \o RecordsOf(<<Last(served)>>)
        /\ Last(served).nxt # NoCursor =>
               (pc = "fetch" /\ url = auth.instance_url \o Last(served).nxt)
        /\ Last(served).nxt = NoCursor => (pc = "done" /\ response.status = 200)

\* The second page is received at the third attempt, with records, and the
\* loop goes on.
C4_Witness ==
    /\ tries = <<503, 503, 200>>
    /\ Len(served) = 2
    /\ Len(served[1].records) > 0
    /\ Len(served[2].records) > 0
    /\ Len(events) = Len(served[1].records) + Len(served[2].records)
    /\ pc = "fetch"

\* The tokens of a text.
Tokens(text) == {text[i] : i \in 1..Len(text)}

\* The text holds part of a table or the id of a fetched record.
ShowsData(text, evs) ==
    \/ "|" \in Tokens(text)
    \/ \E i \in 1..Len(evs) : Tokens(evs[i].id.s) \cap Tokens(text) # {}

\* C5: when a GET fails for good after zero or more pages were received,
\* the response is an error whose body shows no table and no fetched record;
\* a 200 response comes only after a page without cursor was received.
C5_NoPartialResults ==
    /\ (pc = "done" /\ tries # <<>> /\ Last(tries) # 200) =>
        /\ response.status >= 400
        /\ ~ShowsData(response.body, events)
    /\ response.status = 200 =>
        /\ served # <<>>
        /\ Last(served).nxt = NoCursor
        /\ Last(tries) = 200

\* Two pages with records were received and the GET of the third failed.
C5_Witness ==
    /\ pc = "done"
    /\ Len(served) = 2
    /\ Len(events) >= 3
    /\ Last(tries) \in {404, 503}
    /\ response.status = 500

\* C6: when the token exchange is answered with a status that is not a
\* success, the response has status 401 and no GET was made.
C6_AuthFailureIs401 ==
    (pc = "done" /\ posts # <<>> /\ posts[1] \in {400, 500}) =>
        (response.status = 401 /\ gets = 0)

\* C7: when a GET is answered with a non-retryable failure status, the
\* response carries that status.
C7_StatusPassthrough ==
    (pc = "done" /\ tries # <<>> /\ Last(tries) \in ClaimedNonRetryable) =>
        response.status = Last(tries)

C9_ConfigurationError ==
    (\E n \in CredNames : creds[n] \in {"None", ""}) =>
        /\ posts = <<>>
        /\ gets = 0
        /\ pc # "fetch"
        /\ pc = "done" => response.status = 500

\* Only the password is missing (set to the empty string) and the request
\* has been answered.
C9_Witness ==
    /\ creds["SALESFORCE_PASSWORD"] = ""
    /\ \A n \in CredNames \ {"SALESFORCE_PASSWORD"} : creds[n] = "secret"
    /\ pc = "done"
    /\ response.status = 500
    /\ posts = <<>>

\* C10: when the fetch ends with no record, the body of the 200 response is
\* the header row and the separator row of the local renderer, two lines,
\* equal to build_markdown_local of the empty list.
C10_EmptyRender ==
    (pc = "done" /\ response.status = 200 /\ events = <<>>) =>
        /\ Len(SplitLines(response.body)) = 2
        /\ SplitLines(response.body)[1] = HeaderLine
        /\ SplitLines(response.body)[2] = SeparatorLine
        /\ response.body = build_markdown_local(<<>>)

(* ---------------- claims on records and on the renderer --------------- *)

\* The remote records received so far, in the order they were received.
ServedRecords == Flatten([i \in 1..Len(served) |-> served[i].records])

\* C11: every EventOut in events has an id that is a non-empty str, the Id
\* of the remote record it was built from.
C11_IdentifierInvariant ==
    \A i \in 1..Len(events) :
        /\ events[i].id.k = "str"
        /\ events[i].id.s # <<>>
        /\ events[i].id = ServedRecords[i].Id

\* C12: once a page with a record that lacks the Id key was received, the
\* request has ended with status 500 and a body that shows no table and no
\* record.
C12_MissingIdFatal ==
    (\E i \in 1..Len(ServedRecords) : ServedRecords[i].Id.k = "missing") =>
        /\ pc = "done"
        /\ response.status = 500
        /\ ~ShowsData(response.body, events)

\* A page of two records was received, the first well formed and the second
\* without Id.
C12_Witness ==
    /\ Len(ServedRecords) = 2
    /\ ServedRecords[1].Id.k = "str"
    /\ ServedRecords[1].Id.s # <<>>
    /\ ServedRecords[2].Id.k = "missing"
    /\ Len(events) = 1
    /\ pc = "done"
    /\ response.status = 500

\* C13: when every record received has its Id, the request is not aborted:
\* it ends with the table, and every record received is in events.
C13_MalformationIsolated ==
    (pc = "done" /\ \A i \in 1..Len(ServedRecords) : ServedRecords[i].Id.k = "str") =>
        /\ response.status = 200
        /\ Len(events) = Len(ServedRecords)

\* The five resolved names of an EventOut, in the order of Rels.
ResolvedNames(e) ==
    <<e.owner_name, e.what_name, e.account_name, e.created_by_name,
      e.last_modified_by_name>>

\* C14: for each of the five related sub-objects of a record that was built,
\* the resolved name is None when the key is absent, when the sub-object is
\* null and when it is an object without Name, and is the Name otherwise; and
\* a record whose sub-objects are all of these kinds raises nothing.
C14_NameResolution ==
    /\ \A i \in 1..Len(events) : \A f \in 1..5 :
        LET rel == Rels(ServedRecords[i])[f]
            name == ResolvedNames(events[i])[f]
        IN  /\ rel.k \in {"missing", "none"} => name = None
            /\ (rel.k = "obj" /\ rel.Name.k = "missing") => name = None
            /\ (rel.k = "obj" /\ rel.Name.k = "str") => name = rel.Name
    /\ (\A i \in 1..Len(ServedRecords) :
            /\ ServedRecords[i].Id.k = "str"
            /\ \A f \in 1..5 : Rels(ServedRecords[i])[f].k \in {"missing", "none", "obj"})
        => raised = NoException

\* A record with null sub-objects and one with sub-objects without Name were
\* built and the table was returned.
C14_Witness ==
    /\ pc = "done"
    /\ response.status = 200
    /\ Len(events) = 2
    /\ \E i, j \in 1..2 :
        /\ ServedRecords[i].Owner = RelNull
        /\ ServedRecords[j].LastModifiedBy = RelObj(Missing)

\* The value of a field as the renderer reads it: "" for None.
ValueOf(e, h) == IF Attr(e, h).k = "str" THEN Attr(e, h).s ELSE <<>>

\* The positions of a text that hold a given token.
Positions(text, tok) == {k \in 1..Len(text) : text[k] = tok}

\* The column delimiters of a line: the "|" not preceded by a backslash.
Delimiters(line) == {k \in Positions(line, "|") : k = 1 \/ line[k - 1] # "\\"}

\* C15: build_markdown_local of N records has N + 2 lines, the header, the
\* separator and one row per record; a row has the 17 delimiters of its 16
\* columns and every other "|" of it follows a backslash; a cell holds no
\* newline, one backslash more for each "|" of the value, and a space for
\* each newline of the value. The body of a 200 response with records is
\* that text.
C15_RowPerRecord ==
    LET lines == SplitLines(build_markdown_local(events))
    IN  /\ Len(lines) = Len(events) + 2
        /\ lines[1] = HeaderLine
        /\ lines[2] = SeparatorLine
        /\ \A i \in 1..Len(events) :
            /\ lines[i + 2] = RowLine(events[i])
            /\ Cardinality(Delimiters(lines[i + 2])) = Len(headers) + 1
            /\ \A n \in 1..Len(headers) :
                LET val == ValueOf(events[i], headers[n])
                    cell == Cell(events[i], headers[n])
                IN  /\ Positions(cell, "\n") = {}
                    /\ Delimiters(cell) = {}
                    /\ Len(cell) = Len(val) + Cardinality(Positions(val, "|"))
                    /\ Cardinality(Positions(cell, "|")) = Cardinality(Positions(val, "|"))
                    /\ Cardinality(Positions(cell, " ")) =
                           Cardinality(Positions(val, " "))
                             + Cardinality(Positions(val, "\n"))
        /\ (pc = "done" /\ response.status = 200 /\ events # <<>>) =>
               SplitLines(response.body) = lines

\* A record whose description holds a "|" and a newline was rendered.
C15_Witness ==
    /\ pc = "done"
    /\ response.status = 200
    /\ Len(events) = 2
    /\ events[2].description = Str(<<"a", "|", "b", "\n", "c">>)
    /\ Len(SplitLines(response.body)) = 4

RECURSIVE Unescape(_)
\* A cell with every backslash-delimiter pair turned into the delimiter.
Unescape(s) ==
    IF s = <<>> THEN <<>>
    ELSE IF Len(s) >= 2 /\ s[1] = "\\" /\ s[2] = "|"
         THEN <<"|">> \o Unescape(SubSeq(s, 3, Len(s)))
         ELSE <<Head(s)>> \o Unescape(Tail(s))

\* The values of the fields of the records built so far.
ValuesBuilt == {ValueOf(events[i], headers[n]) : i \in 1..Len(events), n \in 1..Len(headers)}

\* The values without newline of the records built so far, each with the
\* cell it renders to.
CellsBuilt ==
    UNION {{<<ValueOf(events[i], headers[n]), Cell(events[i], headers[n])>> :
               n \in {m \in 1..Len(headers) :
                         Positions(ValueOf(events[i], headers[m]), "\n") = {}}} :
           i \in 1..Len(events)}

\* C16: for every value without newline, unescaping the rendered cell gives
\* the value back, so two such values that differ never render alike.
C16_EscapeRoundTrip ==
    /\ \A c \in CellsBuilt : Unescape(c[2]) = c[1]
    /\ \A c, d \in CellsBuilt : c[2] = d[2] => c[1] = d[1]

\* Values that hold a backslash followed by "|", a lone "|" and a trailing
\* backslash were rendered.
C16_Witness ==
    /\ pc = "done"
    /\ response.status = 200
    /\ <<"\\", "|">> \in ValuesBuilt
    /\ <<"c", "\\">> \in ValuesBuilt
    /\ \E v \in ValuesBuilt : Positions(v, "|") # {} /\ Positions(v, "\\") = {}

\* A JSON value as a cell: "" for an absent key and for null, and the str
\* with each "|" after a backslash and each newline as a space.
ClaimedCell(v) ==
    IF v.k = "str" THEN Replace(Replace(v.s, "|", <<"\\", "|">>), "\n", <<" ">>)
    ELSE <<>>

\* The Name of a related sub-object as a cell.
ClaimedNameCell(rel) == IF rel.k = "obj" THEN ClaimedCell(rel.Name) ELSE <<>>

\* The cells of the row of a remote record, in column order.
ClaimedCells(r) ==
    <<ClaimedCell(r.Id), ClaimedCell(r.Subject), ClaimedCell(r.OwnerId),
      ClaimedNameCell(r.Owner), ClaimedCell(r.WhatId), ClaimedNameCell(r.What),
      ClaimedCell(r.AccountId), ClaimedNameCell(r.Account),
      ClaimedCell(r.Appointment_Status__c), ClaimedCell(r.StartDateTime),
      ClaimedCell(r.EndDateTime), ClaimedCell(r.Description),
      ClaimedNameCell(r.CreatedBy), ClaimedCell(r.CreatedById),
      ClaimedNameCell(r.LastModifiedBy), ClaimedCell(r.LastModifiedById)>>

\* C17: when the request ends without an exception and with at least one
\* record, the response is 200 text/plain, its body is the local render of
\* the records in the order they were fetched, and its data row i holds the
\* fields of the i-th record fetched, absent fields as empty cells.
C17_SuccessResponse ==
    (pc = "done" /\ raised = NoException /\ events # <<>>) =>
        /\ response.status = 200
        /\ response.media_type = "text/plain"
        /\ response.body = build_markdown_local(RecordsOf(served))
        /\ Len(SplitLines(response.body)) = Len(ServedRecords) + 2
        /\ \A i \in 1..Len(ServedRecords) :
            SplitLines(response.body)[i + 2] =
                <<"|", " ">> \o Join(ClaimedCells(ServedRecords[i]), <<" ", "|", " ">>)
                             \o <<" ", "|">>

\* The scenario of two records, the first without Owner and the second
\* owned by Alice, ended with the table.
C17_Witness ==
    /\ pc = "done"
    /\ response.status = 200
    /\ Len(events) = 2
    /\ events[1].id = Str(<<"E1">>)
    /\ events[1].owner_name = None
    /\ events[2].id = Str(<<"E2">>)
    /\ events[2].owner_name = Str(<<"Alice">>)

(* ------------- the generative renderer (main.py 74-227) --------------- *)
(* The first version of the handler renders the events it fetched with     *)
(* generate_markdown_with_watsonx: one generate_text call per batch, the    *)
(* local renderer of that version (nine columns) as the fallback.          *)

\* Most events handed to the renderer.
MaxEvents == 3

\* A token that stands for a long run of ordinary characters.
Bulk == "<bulk>"

\* The number of characters Bulk stands for.
BulkChars == 40000

\* The number of characters of a token.
CharLen(tok) ==
    CASE tok = Bulk -> BulkChars
      [] tok \in {"E1", "E2"} -> 2
      [] tok = "Call" -> 4
      [] tok \in {"Visit", "Alice"} -> 5
      [] OTHER -> 1

max_tokens == 8192

\* The characters estimate_tokens counts as one token.
CharsPerToken == 4

\* len() of the text the prompt starts with
PromptPrefixChars == 192

watsonx_headers ==
    <<"id", "subject", "owner_id", "owner_name", "what_id", "what_name",
      "account_id", "account_name", "appointment_status_c">>

\* len() of each of these names
watsonx_header_chars == <<2, 7, 8, 10, 7, 9, 10, 12, 20>>

RECURSIVE SumTo(_, _)
\* f[1] + ... + f[n]
SumTo(f, n) == IF n = 0 THEN 0 ELSE f[n] + SumTo(f, n - 1)

\* The characters json.dumps writes for a token of a str: the backslash and
\* the newline are escaped.
JsonTokenChars(tok) == IF tok \in {"\\", "\n"} THEN 2 ELSE CharLen(tok)

\* len() of json.dumps of a field: null, or the str in quotes
JsonChars(v) ==
    IF v.k # "str" THEN 4
    ELSE 2 + SumTo([k \in 1..Len(v.s) |-> JsonTokenChars(v.s[k])], Len(v.s))

\* len() of json.dumps({k: getattr(e, k) for k in headers}, separators=(",", ":")):
\* the braces, the commas, and for each key its name in quotes, the colon
\* and the value
EventJsonChars(e) ==
    2 + (Len(watsonx_headers) - 1)
      + SumTo([n \in 1..Len(watsonx_headers) |->
                  watsonx_header_chars[n] + 3 + JsonChars(Attr(e, watsonx_headers[n]))],
              Len(watsonx_headers))

\* len(prompt) for a batch
PromptChars(batch) ==
    PromptPrefixChars + 2 + (IF batch = <<>> THEN 0 ELSE Len(batch) - 1)
      + SumTo([n \in 1..Len(batch) |-> EventJsonChars(batch[n])], Len(batch))

\* estimate_tokens(prompt)
estimate_tokens(chars) == chars \div CharsPerToken

NeverOversize(batch) == FALSE

\* The estimate exceeds the limit: the batch is not sent.
Oversize(batch) == estimate_tokens(PromptChars(batch)) > max_tokens

\* The local renderer of that version: the same rows over nine columns.
RowLineV1(e) == TableLine([n \in 1..Len(watsonx_headers) |-> Cell(e, watsonx_headers[n])])

HeaderLineV1 == TableLine([n \in 1..Len(watsonx_headers) |-> <<watsonx_headers[n]>>])

SeparatorLineV1 == TableLine([n \in 1..Len(watsonx_headers) |-> <<"---">>])

build_markdown_local_v1(evs) ==
    Join(<<HeaderLineV1, SeparatorLineV1>> \o [i \in 1..Len(evs) |-> RowLineV1(evs[i])],
         <<"\n">>)

\* The literal the first handler returns when events is empty.
EmptyPlaceholderV1 ==
    HeaderLineV1 \o <<"\n", "|">>
      \o Flatten([n \in 1..Len(watsonx_headers) |-> <<"---", "|">>])

RECURSIVE LStrip(_)
LStrip(s) == IF s # <<>> /\ Head(s) \in {" ", "\n"} THEN LStrip(Tail(s)) ELSE s

RECURSIVE RStrip(_)
RStrip(s) ==
    IF s # <<>> /\ Last(s) \in {" ", "\n"} THEN RStrip(SubSeq(s, 1, Len(s) - 1)) ELSE s

\* str.strip()
Strip(s) == RStrip(LStrip(s))

\* result.startswith("| id |")
StartsWithIdColumn(s) == Len(s) >= 5 /\ SubSeq(s, 1, 5) = <<"|", " ", "id", " ", "|">>

\* What generate_text may return for a batch: the table of the batch, the
\* same between blank lines, its data rows alone, or other text.
Generated(batch) ==
    {build_markdown_local_v1(batch),
     <<"\n">> \o build_markdown_local_v1(batch) \o <<" ", "\n">>,
     Join([i \in 1..Len(batch) |-> RowLineV1(batch[i])], <<"\n">>),
     <<"Sorry,", " ", "no", " ", "table">>}

\* The messages of the errors generate_text may raise.
ErrorMessages ==
    {<<"invalid_instance_status_error">>,
     <<"Request", " ", "cannot exceed the total tokens limit", " ", "8192">>,
     <<"Read", " ", "timed", " ", "out">>,
     <<"quota", " ", "exceeded">>}

RecognizedFirstOnly(msg) == "invalid_instance_status_error" \in {msg[k] : k \in 1..Len(msg)}

RecognizedAlways(msg) == TRUE

\* any(x in msg for x in [...])
Recognized(msg) ==
    \E x \in {"invalid_instance_status_error", "cannot exceed the total tokens limit"} :
        x \in {msg[k] : k \in 1..Len(msg)}

\* result, with the header and the separator put before it when it does not
\* start with the id column
WithHeader(result) ==
    IF StartsWithIdColumn(result) THEN result
    ELSE HeaderLineV1 \o <<"\n">> \o SeparatorLineV1 \o <<"\n">> \o result

DataLinesFromSeparator(tbl) == SubSeq(SplitLines(tbl), 2, Len(SplitLines(tbl)))

\* The lines of a table after the first two.
DataLines(tbl) == SubSeq(SplitLines(tbl), 3, Len(SplitLines(tbl)))

\* The first two lines of the first table, then the data lines of every table.
Stitch(tables) ==
    Join(SubSeq(SplitLines(tables[1]), 1, 2)
           \o Flatten([t \in 1..Len(tables) |-> DataLines(tables[t])]),
         <<"\n">>)

\* events[i:i + batch_size] for the batch in progress
Batch(evs, i) ==
    SubSeq(evs, i + 1, IF i + gen.size < Len(evs) THEN i + gen.size ELSE Len(evs))

\* The events the renderer may be handed.
GenEventPool ==
    {EventOut([EmptyRemote EXCEPT !.Id = Str(<<"E1">>), !.Subject = Str(<<"Call">>)]),
     EventOut([EmptyRemote EXCEPT !.Id = Str(<<"E2">>), !.Subject = Str(<<"a", "|", "b", "\n", "\\">>),
                                  !.Owner = RelObj(Str(<<"Alice">>))]),
     EventOut([EmptyRemote EXCEPT !.Id = Str(<<"E2">>), !.Subject = Str(<<Bulk>>)])}

\* The fetch loop has ended with up to MaxEvents events.
InitGen ==
    /\ events \in UNION {[1..n -> GenEventPool] : n \in 0..MaxEvents}
    /\ pc = "render"
    /\ remote = <<>>
    /\ creds = [n \in CredNames |-> "secret"]
    /\ auth = [access_token |-> AccessToken, instance_url |-> InstanceUrl]
    /\ url = <<>>
    /\ retriesLeft = RetryTotal
    /\ raised = NoException
    /\ response = NoResponse
    /\ posts = <<200>>
    /\ gets = 0
    /\ tries = <<>>
    /\ served = <<>>
    /\ gen = NoGen
    /\ other = NoRequest

GenFrame == <<remote, other, creds, auth, url, retriesLeft, events, posts, gets, tries, served>>

\* if not events: the placeholder of that version is returned.
RenderEmpty ==
    /\ pc = "render"
    /\ events = <<>>
    /\ pc' = "done"
    /\ response' = PlainResponse(EmptyPlaceholderV1)
    /\ UNCHANGED <<GenFrame, raised, gen>>

\* generate_markdown_with_watsonx(events) is entered.
RenderStart ==
    /\ pc = "render"
    /\ events # <<>>
    /\ pc' = "generate"
    /\ gen' = [gen EXCEPT !.pc = "batch"]
    /\ UNCHANGED <<GenFrame, raised, response>>

\* The prompt of the batch is too long: the local render of all the events
\* is returned without a call.
GenOversize ==
    /\ pc = "generate"
    /\ gen.pc = "batch"
    /\ Oversize(Batch(events, gen.i))
    /\ gen' = [gen EXCEPT !.pc = "fallback"]
    /\ pc' = "done"
    /\ response' = PlainResponse(build_markdown_local_v1(events))
    /\ UNCHANGED <<GenFrame, raised>>

\* generate_text answers: the table is kept, and after the last batch the
\* tables are stitched and returned.
GenAnswered ==
    /\ pc = "generate"
    /\ gen.pc = "batch"
    /\ ~Oversize(Batch(events, gen.i))
    /\ \E text \in Generated(Batch(events, gen.i)) :
        LET tables == Append(gen.tables, WithHeader(Strip(text)))
        IN  IF gen.i + gen.size < Len(events)
            THEN /\ gen' = [gen EXCEPT !.i = gen.i + gen.size, !.tables = tables,
                                       !.calls = gen.calls + 1]
                 /\ UNCHANGED <<pc, response>>
            ELSE /\ gen' = [gen EXCEPT !.pc = "stitched", !.tables = tables,
                                       !.calls = gen.calls + 1]
                 /\ pc' = "done"
                 /\ response' = PlainResponse(Stitch(tables))
    /\ UNCHANGED <<GenFrame, raised>>

\* generate_text raises an error with a recognized message: the local render
\* of all the events is returned.
GenDegraded ==
    /\ pc = "generate"
    /\ gen.pc = "batch"
    /\ ~Oversize(Batch(events, gen.i))
    /\ \E msg \in ErrorMessages :
        /\ Recognized(msg)
        /\ gen' = [gen EXCEPT !.pc = "fallback", !.calls = gen.calls + 1, !.error = msg]
    /\ pc' = "done"
    /\ response' = PlainResponse(build_markdown_local_v1(events))
    /\ UNCHANGED <<GenFrame, raised>>

\* generate_text raises any other error: HTTPException(500) leaves the
\* handler.
GenFailed ==
    /\ pc = "generate"
    /\ gen.pc = "batch"
    /\ ~Oversize(Batch(events, gen.i))
    /\ \E msg \in ErrorMessages :
        /\ ~Recognized(msg)
        /\ gen' = [gen EXCEPT !.pc = "failed", !.calls = gen.calls + 1, !.error = msg]
    /\ pc' = "done"
    /\ raised' = HTTPException(500, "Watsonx.ai failure: {msg}")
    /\ response' = [ErrorResponse(raised') EXCEPT !.body = <<"Watsonx.ai failure: ">> \o gen'.error]
    /\ UNCHANGED GenFrame

NextGen ==
    \/ RenderEmpty
    \/ RenderStart
    \/ GenOversize
    \/ GenAnswered
    \/ GenDegraded
    \/ GenFailed

SpecGen == InitGen /\ [][NextGen]_vars

(* ------------------ claims on the generative renderer ------------------ *)

\* The markers the claims call recognized.
ClaimedMarkers == {"invalid_instance_status_error", "cannot exceed the total tokens limit"}

ContainsMarker(msg) == \E k \in 1..Len(msg) : msg[k] \in ClaimedMarkers

\* The backend has raised an error on a batch.
BackendRaised == gen.error # <<>>

\* C18: when the generative backend raises, on whichever batch, an error whose
\* message contains a recognized marker, the renderer returns exactly
\* build_markdown_local of the entire input, whatever tables were generated
\* before, and the request does not fail: the response is 200 text/plain
\* with that table and no exception is raised.
C18_GenerativeFallback ==
    (BackendRaised /\ ContainsMarker(gen.error)) =>
        /\ pc = "done"
        /\ raised = NoException
        /\ response = PlainResponse(build_markdown_local_v1(events))

C18_Witness ==
    /\ BackendRaised
    /\ gen.error = <<"Request", " ", "cannot exceed the total tokens limit", " ", "8192">>
    /\ Len(events) = 2
    /\ response.status = 200

\* The prompt of the batch the renderer is at is estimated above the
\* threshold.
PromptTooLong == estimate_tokens(PromptChars(Batch(events, gen.i))) > max_tokens

\* C19: if the estimated size of the prompt of a batch exceeds the threshold,
\* the renderer ends there: no generation call is made for that batch or for
\* a later one (the calls made are those of the batches before it), no error
\* is raised, and the result is the local render of the entire input.
C19_OversizeFallback ==
    (pc = "done" /\ gen.pc # "idle" /\ PromptTooLong) =>
        /\ gen.pc = "fallback"
        /\ gen.error = <<>>
        /\ gen.calls = gen.i \div batch_size
        /\ raised = NoException
        /\ response = PlainResponse(build_markdown_local_v1(events))

C19_Witness ==
    /\ pc = "done"
    /\ gen.pc = "fallback"
    /\ PromptTooLong
    /\ Len(events) = 2
    /\ events[1].subject # Str(<<Bulk>>)
    /\ gen.calls = 0
    /\ Len(SplitLines(response.body)) = 4

\* C20: when the generative backend raises an error whose message contains
\* none of the recognized markers, the request fails with status 500 and no
\* table is returned, neither a generated one nor the local one.
C20_HardFailure ==
    (BackendRaised /\ ~ContainsMarker(gen.error)) =>
        /\ pc = "done"
        /\ raised.type = "HTTPException"
        /\ raised.status_code = 500
        /\ response.status = 500
        /\ response.media_type # "text/plain"
        /\ ~StartsWithIdColumn(response.body)
        /\ \A k \in 1..Len(response.body) : response.body[k] # "|"

C20_Witness ==
    /\ BackendRaised
    /\ gen.error = <<"Read", " ", "timed", " ", "out">>
    /\ response.status = 500
    /\ Len(events) = 1

(* ------------------- calls that are never answered -------------------- *)

\* The mark of a token POST that was sent and never answered.
Unanswered == 0 - 1

\* requests.post is called without a timeout: when the token endpoint
\* accepts the request and never answers, the handler stays in the call.
TokenUnanswered ==
    /\ pc = "start"
    /\ AllCredentials(creds)
    /\ posts' = Append(posts, Unanswered)
    /\ pc' = "post"
    /\ UNCHANGED <<remote, gen, other, creds, auth, url, retriesLeft, events, raised, response,
                   gets, tries, served>>

\* A request whose calls may go unanswered. A page GET that is not answered
\* within timeout=30 raises in the adapter and is one of the failed
\* attempts (NetErr) of GetRetried and GetExhausted.
NextTimeouts ==
    \/ TokenMissingCredentials
    \/ TokenRejected
    \/ TokenNetworkError
    \/ TokenGranted
    \/ TokenUnanswered
    \/ GetRetried
    \/ GetExhausted
    \/ GetHttpError
    \/ GetPage
    \/ GetMalformedPage

\* The handler is not suspended by the platform: it takes its next step
\* whenever it has one.
SpecTimeouts == Init /\ [][NextTimeouts]_vars /\ WF_vars(NextTimeouts)

(* ---------------------- claims on termination ------------------------- *)

\* C21: every request eventually gets a response, even when an upstream
\* endpoint never answers: each outbound call is bounded by a timeout, a
\* timed-out page GET is retried within the retry bound and a timed-out
\* token exchange fails the request at once.
C21_EveryRequestAnswered == <>(pc = "done" /\ response # NoResponse)

(* ---------------------- claims on error bodies ------------------------- *)

Calls == Len(posts) + gets

\* What holds of the calls made so far in every state.
OrderedSoFar ==
    /\ gets > 0 => (posts = <<200>> /\ auth # NoAuth)
    /\ \A k \in 1..Len(served) :
          /\ served[k].page = k
          /\ k < Len(served) => served[k].nxt # NoCursor
    /\ raised = NoException => events = RecordsOf(served)
    /\ (pc = "fetch" /\ served # <<>>) =>
          /\ Last(served).nxt # NoCursor
          /\ url = ResolveCursor(auth.instance_url, Last(served).nxt)
    /\ response.status = 200 =>
          /\ served # <<>>
          /\ Last(served).nxt = NoCursor
          /\ events = RecordsOf(served)

\* What holds of every step: it makes at most one call and has the answer
\* before the next step; a GET is made only with the token exchange
\* completed and the pages received before it normalized; the response is
\* produced by a step that makes no call after the last page.
OrderedStep ==
    /\ Calls' - Calls \in {0, 1}
    /\ gets' > gets => (posts = <<200>> /\ pc = "fetch" /\ events = RecordsOf(served))
    /\ Len(posts') > Len(posts) => (gets = 0 /\ pc = "start")
    /\ (response' # response /\ response'.status = 200) =>
          (served' # <<>> /\ Last(served').nxt = NoCursor /\ Last(tries') = 200)

\* C23: call ordering within a request: the token exchange completes before
\* any page GET is issued; the GET of page k+1 is issued only after page k
\* was received and its records normalized; rendering starts only after the
\* last page was received; at most one outbound call is in flight.
C23_CallOrdering == []OrderedSoFar /\ [][OrderedStep]_vars

C23_Witness ==
    /\ Len(served) = 3
    /\ response.status = 200
    /\ Len(events) = 4
    /\ gets > 3

(* ------------------ claims on the live status codes ------------------- *)

\* C27: every response of get_events has status 200 or 500; every exception
\* raised inside the handler body, the HTTPException values of
\* get_salesforce_access_token included, is answered with status 500 and the
\* fixed detail "Failed to fetch events"; exactly one response is produced:
\* there is a response exactly when the handler has ended, never before, and
\* the handler takes no step after it.
C27_LiveStatusCodes ==
    /\ (pc = "done") <=> (response # NoResponse)
    /\ pc = "done" => response.status \in {200, 500}
    /\ raised # NoException =>
          response = [status |-> 500, media_type |-> "application/json",
                      body |-> <<"Failed to fetch events">>]
    /\ (pc = "done" /\ raised = NoException) => response.status = 200
    /\ pc = "done" => ~ENABLED NextTimeouts

\* The token helper raised HTTPException(401) and the response is 500.
C27_Witness ==
    /\ pc = "done"
    /\ raised.type = "HTTPException"
    /\ raised.status_code = 401
    /\ response.status = 500
    /\ response.body = <<"Failed to fetch events">>

(* ------------------------ two calls of get_events --------------------- *)

ResumedAuthCached(parked, running) == IF running # NoAuth THEN running ELSE parked

ResumedEventsShared(parked, running) == running

\* The locals of the running call, with the calls it has made.
Running ==
    [id |-> Self, pc |-> pc, auth |-> auth, url |-> url, retriesLeft |-> retriesLeft,
     events |-> events, raised |-> raised, response |-> response,
     posts |-> posts, gets |-> gets, tries |-> tries, served |-> served]

\* auth, token, inst and headers are locals of get_events: a call that is
\* resumed finds the values it left, whatever the other call holds.
ResumedAuth(parked, running) == parked

\* events is a local of get_events, a new list in each call.
ResumedEvents(parked, running) == parked

\* The platform runs the other call of get_events, which goes on from where
\* it was with its own locals.
Switch ==
    /\ other.pc \notin {"none", "done"}
    /\ other' = Running
    /\ pc' = other.pc
    /\ auth' = ResumedAuth(other.auth, auth)
    /\ url' = other.url
    /\ retriesLeft' = other.retriesLeft
    /\ events' = ResumedEvents(other.events, events)
    /\ raised' = other.raised
    /\ response' = other.response
    /\ posts' = other.posts
    /\ gets' = other.gets
    /\ tries' = other.tries
    /\ served' = other.served
    /\ UNCHANGED <<remote, creds, gen>>

\* The credentials of the process: all set, or the password unset.
TwoCreds ==
    {[n \in CredNames |-> "secret"],
     [n \in CredNames |-> IF n = "SALESFORCE_PASSWORD" THEN "None" ELSE "secret"]}

\* Two requests arrive; call 1 runs first. The result set has as many
\* records as a page can hold, whole or with its last record without Id.
InitTwo ==
    /\ remote \in {r \in ResultSets :
                      Len(r) = MaxRecs /\ \A i \in 1..(MaxRecs - 1) : r[i].Id # Missing}
    /\ creds \in TwoCreds
    /\ pc = "start"
    /\ auth = NoAuth
    /\ url = <<>>
    /\ retriesLeft = 0
    /\ events = <<>>
    /\ raised = NoException
    /\ response = NoResponse
    /\ posts = <<>>
    /\ gets = 0
    /\ tries = <<>>
    /\ served = <<>>
    /\ gen = NoGen
    /\ other = NewRequest(2)

\* A step of the running call, or the other call is run. Every GET is
\* answered with a page or with a status the adapter does not retry.
NextTwo ==
    \/ TokenMissingCredentials
    \/ TokenRejected
    \/ TokenNetworkError
    \/ TokenGranted
    \/ GetHttpError
    \/ GetPage
    \/ GetMalformedPage
    \/ Switch

SpecTwo == InitTwo /\ [][NextTwo]_vars

(* ------------------- claims on concurrent requests -------------------- *)

\* The calls of get_events there are.
Requests == {r \in {Running, other} : r.pc # "none"}

\* C24: each request performs exactly one token exchange attempt, none when
\* credentials are missing; a rejected or failed exchange is not retried and
\* ends the request before any GET; the token and the instance URL obtained
\* are those of every page GET of that request, and of no GET of the other
\* request.
C24_SingleAuthentication ==
    \A r \in Requests :
        /\ Len(r.posts) <= 1
        /\ r.pc # "start" => Len(r.posts) = (IF AllCredentials(creds) THEN 1 ELSE 0)
        /\ r.posts # <<200>> => (r.auth = NoAuth /\ r.gets = 0 /\ r.served = <<>>)
        /\ (r.posts # <<>> /\ r.posts # <<200>>) => r.pc = "done"
        /\ r.posts = <<200>> =>
              r.auth = [access_token |-> AccessTokens[r.id], instance_url |-> InstanceUrl]
        /\ \A k \in 1..Len(r.served) :
              /\ r.served[k].bearer = AccessTokens[r.id]
              /\ \A q \in Requests \ {r} : r.served[k].bearer # q.auth.access_token

\* Both requests have fetched pages with their own tokens, interleaved.
C24_Witness ==
    /\ pc = "fetch"
    /\ other.pc = "fetch"
    /\ Len(served) = 2
    /\ Len(other.served) = 1
    /\ served[2].bearer = "tok1"
    /\ other.served[1].bearer = "tok2"

\* What holds of each request in every state: its rows, its cursor and its
\* retry count are those of its own GETs.
IsolatedSoFar ==
    \A r \in Requests :
        /\ r.raised = NoException => r.events = RecordsOf(r.served)
        /\ r.response.status = 200 => r.response = Render(RecordsOf(r.served))
        /\ (r.pc = "fetch" /\ r.served # <<>>) =>
              r.url = ResolveCursor(r.auth.instance_url, Last(r.served).nxt)
        /\ r.pc = "fetch" =>
              r.retriesLeft = RetryTotal -
                  (IF r.tries # <<>> /\ Last(r.tries) = 200 THEN 0 ELSE Len(r.tries))

\* What holds of every step: a step of one request leaves the other as it
\* was, and when the other request is run both go on as they were.
IsolatedStep ==
    /\ other'.id = other.id => other' = other
    /\ other'.id # other.id => (other' = Running /\ Running' = other)

MaxBatch == 2

\* The render stage with a batch size of 1 to MaxBatch in place of
\* batch_size, so that an input of MaxEvents events makes several batches.
InitStitch ==
    /\ events \in UNION {[1..n -> GenEventPool] : n \in 0..MaxEvents}
    /\ gen \in {[NoGen EXCEPT !.size = n] : n \in 1..MaxBatch}
    /\ pc = "render"
    /\ remote = <<>>
    /\ creds = [n \in CredNames |-> "secret"]
    /\ auth = [access_token |-> AccessToken, instance_url |-> InstanceUrl]
    /\ url = <<>>
    /\ retriesLeft = RetryTotal
    /\ raised = NoException
    /\ response = NoResponse
    /\ posts = <<200>>
    /\ gets = 0
    /\ tries = <<>>
    /\ served = <<>>
    /\ other = NoRequest

SpecStitch == InitStitch /\ [][NextGen]_vars

(* ------------------ claims on batches and stitching ------------------- *)

\* len(range(0, len(events), batch_size))
NumBatches == (Len(events) + gen.size - 1) \div gen.size

\* The batches of the loop, in order.
Batches == [k \in 1..NumBatches |-> Batch(events, (k - 1) * gen.size)]

\* The rows of the local table of a list of events.
RowsOf(evs) == [i \in 1..Len(evs) |-> RowLineV1(evs[i])]

\* A header line, a separator line, then lines that are neither.
IsTable(tbl) ==
    LET ls == SplitLines(tbl)
    IN  /\ Len(ls) >= 2
        /\ ls[1] = HeaderLineV1
        /\ ls[2] = SeparatorLineV1
        /\ \A j \in 3..Len(ls) : ls[j] \notin {HeaderLineV1, SeparatorLineV1}

\* The lines of a table below its header and separator.
RowsIn(tbl) == Tail(Tail(SplitLines(tbl)))

\* C26: the batches are contiguous, of the fixed size but for the last, and
\* in input order, so that every record is in exactly one batch; when every
\* batch output is a header + separator + rows table, the stitched result
\* is the header and separator followed by the data rows of every batch in
\* batch order, with no header or separator among the rows; when each batch
\* output is the table of its batch, the result is the table of the input.
C26_BatchesAndStitching ==
    /\ Flatten(Batches) = events
    /\ \A k \in 1..NumBatches :
          /\ Batches[k] # <<>>
          /\ Len(Batches[k]) <= gen.size
          /\ k < NumBatches => Len(Batches[k]) = gen.size
    /\ (gen.pc = "stitched" /\ \A k \in 1..Len(gen.tables) : IsTable(gen.tables[k])) =>
          /\ Len(gen.tables) = NumBatches
          /\ SplitLines(response.body) =
                 <<HeaderLineV1, SeparatorLineV1>>
                   \o Flatten([k \in 1..Len(gen.tables) |-> RowsIn(gen.tables[k])])
    /\ (gen.pc = "stitched"
          /\ \A k \in 1..Len(gen.tables) :
                 SplitLines(gen.tables[k]) =
                     <<HeaderLineV1, SeparatorLineV1>> \o RowsOf(Batches[k])) =>
          response.body = build_markdown_local_v1(events)

\* Three events in two batches, each answered with the table of its batch.
C26_Witness ==
    /\ gen.pc = "stitched"
    /\ gen.size = 2
    /\ Len(events) = 3
    /\ Len(gen.tables) = 2
    /\ \A k \in 1..2 : SplitLines(gen.tables[k]) =
                           <<HeaderLineV1, SeparatorLineV1>> \o RowsOf(Batches[k])
    /\ Len(SplitLines(response.body)) = 5

====
